---- MODULE Spec2Model ----
(***************************************************************************)
(* A model of sample-backend/main.py: an in-memory todo list served by     *)
(* three FastAPI coroutine handlers (get_todos, get_todo, create_todo)     *)
(* over two module globals, todos_db and next_id.                          *)
(*                                                                         *)
(* Python values are modelled as strings ("True", "False", "None") so that *)
(* an Optional[bool] and a bool live in one comparable domain.             *)
(***************************************************************************)
EXTENDS Integers, Sequences, FiniteSets

\* ------------------------------------------------------------- bounds

\* Number of request slots: requests that can be in flight at once.
NumTasks == 2

\* Number of requests the server receives in a run.
MaxRequests == 3

Tasks == 1..NumTasks

\* Request inputs.
Titles == {"", "Write spec"}
JsonCompleted == {"absent", "null", "true", "false"}
TodoIds == -1..4

\* ------------------------------------------------------ program values

\* class Todo(BaseModel): id, title, completed
Todo(id, title, completed) ==
    [id |-> id, title |-> title, completed |-> completed]

\* class CreateTodo(BaseModel): title: str; completed: Optional[bool] = False
\* applied to a JSON body: an absent field takes the default, null is None.
CreateTodo(body) ==
    [title |-> body.title,
     completed |-> CASE body.completed = "absent" -> "False"
                     [] body.completed = "null" -> "None"
                     [] body.completed = "true" -> "True"
                     [] body.completed = "false" -> "False"]

\* Python's `a or b`: a when a is truthy, b otherwise.
PyOrDropped(a, b) == a

PyOr(a, b) == IF a \in {"None", "False"} THEN b ELSE a

\* todos_db.append(todo)
ListAppendFront(db, todo) == <<todo>> \o db

ListAppendReplace(db, todo) ==
    IF db = <<>> THEN <<todo>> ELSE SubSeq(db, 1, Len(db) - 1) \o <<todo>>

ListAppend(db, todo) == Append(db, todo)

\* next_id += 1
IncrementForgotten(n) == n

IncrementTwice(n) == n + 2

Increment(n) == n + 1

\* The "Example initial data" block: if not todos_db: append, += 1, append, += 1.
\* made: the records the block constructed, in order.
SeedBlockAlways(db, nid) ==
    LET todo1 == Todo(nid, "Learn FastAPI", "False")
        db1 == ListAppend(db, todo1)
        nid1 == Increment(nid)
        todo2 == Todo(nid1, "Build an API tester", "True")
        db2 == ListAppend(db1, todo2)
        nid2 == Increment(nid1)
    IN  [db |-> db2, nid |-> nid2, made |-> <<todo1, todo2>>]

SeedBlockOneIncrement(db, nid) ==
    IF db = <<>>
    THEN LET todo1 == Todo(nid, "Learn FastAPI", "False")
             db1 == ListAppend(db, todo1)
             todo2 == Todo(Increment(nid), "Build an API tester", "True")
             db2 == ListAppend(db1, todo2)
         IN  [db |-> db2, nid |-> Increment(nid), made |-> <<todo1, todo2>>]
    ELSE [db |-> db, nid |-> nid, made |-> <<>>]

SeedBlock(db, nid) ==
    IF db = <<>>
    THEN LET todo1 == Todo(nid, "Learn FastAPI", "False")
             db1 == ListAppend(db, todo1)
             nid1 == Increment(nid)
             todo2 == Todo(nid1, "Build an API tester", "True")
             db2 == ListAppend(db1, todo2)
             nid2 == Increment(nid1)
         IN  [db |-> db2, nid |-> nid2, made |-> <<todo1, todo2>>]
    ELSE [db |-> db, nid |-> nid, made |-> <<>>]

\* Responses: status, the records of the body, the error detail.
NoResponse == [op |-> "none", status |-> 0, todos |-> <<>>, detail |-> ""]

Response(op, status, todos, detail) ==
    [op |-> op, status |-> status, todos |-> todos, detail |-> detail]

\* raise HTTPException(status_code=404, detail="Todo not found")
NotFound == Response("get_todo", 404, <<>>, "Todo not found")

\* if todo.id == todo_id
MatchesAtLeast(todo, todo_id) == todo.id >= todo_id

Matches(todo, todo_id) == todo.id = todo_id

\* for todo in todos_db: if todo.id == todo_id: return todo; raise 404
RECURSIVE ScanFrom(_, _, _)
ScanFrom(db, i, todo_id) ==
    IF i > Len(db)
    THEN NotFound
    ELSE IF Matches(db[i], todo_id)
         THEN Response("get_todo", 200, <<db[i]>>, "")
         ELSE ScanFrom(db, i + 1, todo_id)

\* ---------------------------------------------------------------- state

VARIABLES
    phase,      \* where module execution is: "seed1", "seed2", "main", "serving"
    todos_db,   \* the list of Todo records
    next_id,    \* the id counter
    pc,         \* per slot: "idle", "ready", "append", "incr"
    req,        \* per slot: the request being handled
    new_todo,   \* per slot: create_todo's local new_todo
    response,   \* the response the server sent last
    issued,     \* history: the records handed out by seeding and by create_todo
    nreq        \* number of requests received

vars == <<phase, todos_db, next_id, pc, req, new_todo, response, issued, nreq>>

NoTodo == Todo(0, "", "False")

NoRequest == [op |-> "none", todo_id |-> 0, title |-> "", completed |-> "absent"]

Requests ==
    {[op |-> "get_todos", todo_id |-> 0, title |-> "", completed |-> "absent"]}
    \cup {[op |-> "get_todo", todo_id |-> i, title |-> "", completed |-> "absent"] :
             i \in TodoIds}
    \cup {[op |-> "create_todo", todo_id |-> 0, title |-> ti, completed |-> c] :
             ti \in Titles, c \in JsonCompleted}

\* todos_db = []; next_id = 1
Init ==
    /\ phase = "seed1"
    /\ todos_db = <<>>
    /\ next_id = 1
    /\ pc = [t \in Tasks |-> "idle"]
    /\ req = [t \in Tasks |-> NoRequest]
    /\ new_todo = [t \in Tasks |-> NoTodo]
    /\ response = NoResponse
    /\ issued = <<>>
    /\ nreq = 0

\* ------------------------------------------------------- module loading

\* The first "Example initial data" block.
SeedData1 ==
    /\ phase = "seed1"
    /\ LET r == SeedBlock(todos_db, next_id)
       IN  /\ todos_db' = r.db
           /\ next_id' = r.nid
           /\ issued' = issued \o r.made
    /\ phase' = "seed2"
    /\ UNCHANGED <<pc, req, new_todo, response, nreq>>

\* The second "Example initial data (optional)" block.
SeedData2Always ==
    /\ phase = "seed2"
    /\ LET r == SeedBlockAlways(todos_db, next_id)
       IN  /\ todos_db' = r.db
           /\ next_id' = r.nid
           /\ issued' = issued \o r.made
    /\ phase' = "main"
    /\ UNCHANGED <<pc, req, new_todo, response, nreq>>

SeedData2 ==
    /\ phase = "seed2"
    /\ LET r == SeedBlock(todos_db, next_id)
       IN  /\ todos_db' = r.db
           /\ next_id' = r.nid
           /\ issued' = issued \o r.made
    /\ phase' = "main"
    /\ UNCHANGED <<pc, req, new_todo, response, nreq>>

\* uvicorn.run(app, ...): the event loop starts serving.
Main ==
    /\ phase = "main"
    /\ phase' = "serving"
    /\ UNCHANGED <<todos_db, next_id, pc, req, new_todo, response, issued, nreq>>

\* -------------------------------------------------------------- serving

\* A request arrives and is routed to its handler; it waits for the loop.
Receive(t) ==
    /\ phase = "serving"
    /\ pc[t] = "idle"
    /\ nreq < MaxRequests
    /\ \E r \in Requests : req' = [req EXCEPT ![t] = r]
    /\ pc' = [pc EXCEPT ![t] = "ready"]
    /\ nreq' = nreq + 1
    /\ UNCHANGED <<phase, todos_db, next_id, new_todo, response, issued>>

\* A handler that has started and not yet returned.
MidHandler(t) == pc[t] \in {"append", "incr"}

\* The handlers are coroutines (async def) with no await in their bodies: the
\* event loop starts one only when no other is in the middle of its body.
EventLoopThreaded(t) == TRUE

EventLoopFree(t) == \A u \in Tasks \ {t} : ~MidHandler(u)

\* async def get_todos(): return todos_db
get_todos_pop(t) ==
    /\ pc[t] = "ready"
    /\ req[t].op = "get_todos"
    /\ EventLoopFree(t)
    /\ response' = Response("get_todos", 200, todos_db, "")
    /\ todos_db' = IF todos_db = <<>> THEN todos_db ELSE Tail(todos_db)
    /\ pc' = [pc EXCEPT ![t] = "idle"]
    /\ UNCHANGED <<phase, next_id, req, new_todo, issued, nreq>>

get_todos(t) ==
    /\ pc[t] = "ready"
    /\ req[t].op = "get_todos"
    /\ EventLoopFree(t)
    /\ response' = Response("get_todos", 200, todos_db, "")
    /\ pc' = [pc EXCEPT ![t] = "idle"]
    /\ UNCHANGED <<phase, todos_db, next_id, req, new_todo, issued, nreq>>

\* async def get_todo(todo_id): scan, return the match or raise 404
get_todo(t) ==
    /\ pc[t] = "ready"
    /\ req[t].op = "get_todo"
    /\ EventLoopFree(t)
    /\ response' = ScanFrom(todos_db, 1, req[t].todo_id)
    /\ pc' = [pc EXCEPT ![t] = "idle"]
    /\ UNCHANGED <<phase, todos_db, next_id, req, new_todo, issued, nreq>>

\* async def create_todo(todo_create):
\*   new_todo = Todo(id=next_id, title=..., completed=todo_create.completed or False)
create_todo_new(t) ==
    /\ pc[t] = "ready"
    /\ req[t].op = "create_todo"
    /\ EventLoopFree(t)
    /\ LET todo_create == CreateTodo(req[t])
       IN  new_todo' = [new_todo EXCEPT ![t] =
               Todo(next_id, todo_create.title, PyOr(todo_create.completed, "False"))]
    /\ pc' = [pc EXCEPT ![t] = "append"]
    /\ UNCHANGED <<phase, todos_db, next_id, req, response, issued, nreq>>

\*   todos_db.append(new_todo)
create_todo_append(t) ==
    /\ pc[t] = "append"
    /\ todos_db' = ListAppend(todos_db, new_todo[t])
    /\ pc' = [pc EXCEPT ![t] = "incr"]
    /\ UNCHANGED <<phase, next_id, req, new_todo, response, issued, nreq>>

\*   next_id += 1; return new_todo
create_todo_return(t) ==
    /\ pc[t] = "incr"
    /\ next_id' = Increment(next_id)
    /\ response' = Response("create_todo", 201, <<new_todo[t]>>, "")
    /\ issued' = Append(issued, new_todo[t])
    /\ new_todo' = [new_todo EXCEPT ![t] = NoTodo]
    /\ pc' = [pc EXCEPT ![t] = "idle"]
    /\ UNCHANGED <<phase, todos_db, req, nreq>>

Next ==
    \/ SeedData1
    \/ SeedData2
    \/ Main
    \/ \E t \in Tasks : Receive(t)
    \/ \E t \in Tasks : get_todos(t)
    \/ \E t \in Tasks : get_todo(t)
    \/ \E t \in Tasks : create_todo_new(t)
    \/ \E t \in Tasks : create_todo_append(t)
    \/ \E t \in Tasks : create_todo_return(t)

Spec == Init /\ [][Next]_vars

\* --------------------------------------------------------------- claims

\* No handler is in the middle of its body: the states a request can observe.
Quiescent == \A t \in Tasks : ~MidHandler(t)

Seeds == <<Todo(1, "Learn FastAPI", "False"), Todo(2, "Build an API tester", "True")>>

IdsOf(db) == {db[i].id : i \in 1..Len(db)}

\* C1: after seeding and between requests, the stored ids are pairwise
\* distinct and each is a positive integer strictly below next_id.
C1_UniqueIdsBelowNext ==
    /\ \A i, j \in 1..Len(todos_db) : i # j => todos_db[i].id # todos_db[j].id
    /\ \A i \in 1..Len(todos_db) : todos_db[i].id >= 1
    /\ Quiescent => \A i \in 1..Len(todos_db) : todos_db[i].id < next_id

C1_Witness ==
    /\ Quiescent
    /\ phase = "serving"
    /\ Len(todos_db) = 4
    /\ response.op = "get_todo"

\* C2: the record create_todo returns has an id above that of every record
\* created before it (seeds included), and get_todos returns the records in
\* the order they were created.
C2_IncreasingIdsCreationOrder ==
    [][\A t \in Tasks :
          /\ create_todo_return(t) =>
                \A i \in 1..Len(issued) : issued[i].id < response'.todos[1].id
          /\ get_todos(t) => response'.todos = issued]_vars

C2_Witness ==
    /\ response.op = "get_todos"
    /\ Len(response.todos) = 4
    /\ response.todos[3].title # response.todos[4].title

\* C3: get_todo(id) answers 200 with the record of that id exactly when
\* seeding or an earlier create_todo produced a record with that id; otherwise
\* it answers 404 "Todo not found"; either way todos_db and next_id stay.
C3_GetFoundIffIssued ==
    [][\A t \in Tasks : get_todo(t) =>
          LET produced == {i \in 1..Len(issued) : issued[i].id = req[t].todo_id}
          IN  /\ produced # {} =>
                    /\ response'.status = 200
                    /\ Len(response'.todos) = 1
                    /\ response'.todos[1].id = req[t].todo_id
                    /\ \E i \in produced : issued[i] = response'.todos[1]
              /\ produced = {} =>
                    /\ response'.status = 404
                    /\ response'.detail = "Todo not found"
                    /\ response'.todos = <<>>
              /\ UNCHANGED <<todos_db, next_id>>]_vars

C3_Witness ==
    /\ response.op = "get_todo"
    /\ response.status = 200
    /\ Len(response.todos) = 1
    /\ response.todos[1].id = 3

\* C4: get_todos and get_todo (found or not) leave todos_db and next_id as
\* they were, and the answer they give is the answer the same call gives in
\* the state they leave behind.
C4_ReadsLeaveState ==
    [][\A t \in Tasks :
          /\ get_todos(t) =>
                /\ UNCHANGED <<todos_db, next_id>>
                /\ response' = Response("get_todos", 200, todos_db', "")
          /\ get_todo(t) =>
                /\ UNCHANGED <<todos_db, next_id>>
                /\ response' = ScanFrom(todos_db', 1, req[t].todo_id)]_vars

C4_Witness ==
    /\ nreq = MaxRequests
    /\ Quiescent
    /\ \A t \in Tasks : pc[t] = "idle"
    /\ issued = Seeds
    /\ response = NotFound

\* C5: create_todo answers 201 with a record whose id is next_id as it was at
\* the call, whose title is the given title and whose completed is the given
\* value (false when none is given); todos_db becomes the earlier records
\* followed by that record and next_id grows by exactly 1.
C5_CreateAppendsAndIncrements ==
    [][\A t \in Tasks :
          /\ create_todo_new(t) =>
                /\ new_todo'[t].id = next_id
                /\ new_todo'[t].title = req[t].title
                /\ new_todo'[t].completed =
                       (IF req[t].completed = "true" THEN "True" ELSE "False")
                /\ todos_db = issued
                /\ UNCHANGED <<todos_db, next_id>>
          /\ create_todo_append(t) =>
                /\ new_todo[t].id = next_id
                /\ next_id' = next_id
          /\ create_todo_return(t) =>
                /\ response'.status = 201
                /\ response'.todos = <<new_todo[t]>>
                /\ new_todo[t].title = req[t].title
                /\ new_todo[t].id = next_id
                /\ next_id' = next_id + 1
                /\ todos_db' = Append(issued, new_todo[t])]_vars

C5_Witness ==
    /\ response.op = "create_todo"
    /\ response.status = 201
    /\ response.todos[1].title = ""
    /\ todos_db = Append(Seeds, response.todos[1])
    /\ next_id = 4

\* C6: once the module is loaded and before any request is received, todos_db
\* is the two seed records and next_id is 3; the second seed block finds the
\* list non-empty and changes nothing; a first request get_todo(3) answers 404.
C6_StartupState ==
    /\ (phase \in {"seed2", "main"} \/ (phase = "serving" /\ nreq = 0)) =>
          /\ todos_db = Seeds
          /\ issued = Seeds
          /\ next_id = 3
          /\ ScanFrom(todos_db, 1, 3) = NotFound
    /\ \A t \in Tasks :
          (nreq = 1 /\ pc[t] = "idle" /\ req[t].op = "get_todo" /\ req[t].todo_id = 3)
             => response = NotFound

C6_Witness ==
    /\ nreq = 1
    /\ \E t \in Tasks : pc[t] = "idle" /\ req[t].op = "get_todo" /\ req[t].todo_id = 3
    /\ response = NotFound
    /\ todos_db = Seeds

\* C7: a stored record keeps its position and its fields in every later
\* state, and between requests get_todo of the id of any record handed out
\* finds exactly that record.
C7_RecordsNeverChange ==
    [][/\ \A i \in 1..Len(todos_db) :
             Len(todos_db') >= i /\ todos_db'[i] = todos_db[i]
       /\ Quiescent' =>
             \A i \in 1..Len(issued') :
                ScanFrom(todos_db', 1, issued'[i].id) =
                   Response("get_todo", 200, <<issued'[i]>>, "")]_vars

C7_Witness ==
    /\ Len(issued) = 4
    /\ issued[3] = Todo(3, "Write spec", "True")
    /\ response = Response("get_todo", 200, <<Todo(3, "Write spec", "True")>>, "")

\* C8: with several requests in flight, no handler takes a step while another
\* create_todo is between its read of next_id and its increment; a handler
\* starts only in a state where every stored id is below next_id; and
\* create_todo never hands out an id handed out before.
C8_CreateIsAtomic ==
    [][\A t \in Tasks :
          /\ (\/ get_todos(t) \/ get_todo(t) \/ create_todo_new(t)
              \/ create_todo_append(t) \/ create_todo_return(t)) =>
                \A u \in Tasks \ {t} : ~MidHandler(u)
          /\ (get_todos(t) \/ get_todo(t) \/ create_todo_new(t)) =>
                \A i \in 1..Len(todos_db) : todos_db[i].id < next_id
          /\ create_todo_return(t) => new_todo[t].id \notin IdsOf(issued)]_vars

C8_Witness ==
    \E t, u \in Tasks :
       /\ pc[t] = "incr"
       /\ pc[u] = "ready"
       /\ req[u].op = "create_todo"
       /\ todos_db[Len(todos_db)].id = next_id

\* C9: a create_todo whose body has no completed field, or has completed
\* null, makes a record with completed False; every stored completed is a
\* boolean, never None.
C9_CompletedDefaultsToFalse ==
    /\ \A i \in 1..Len(todos_db) : todos_db[i].completed \in {"True", "False"}
    /\ \A t \in Tasks :
          (MidHandler(t) /\ req[t].completed \in {"absent", "null"}) =>
             new_todo[t].completed = "False"
    /\ response.op = "create_todo" => response.todos[1].completed \in {"True", "False"}

C9_Witness ==
    \E t \in Tasks :
       /\ pc[t] = "incr"
       /\ req[t].completed = "null"
       /\ todos_db[Len(todos_db)] = new_todo[t]
       /\ new_todo[t].completed = "False"

\* C10: between requests next_id is the number of stored records plus 1 and
\* the record at position i has id i.
C10_IdsAreOneToLen ==
    Quiescent =>
       /\ next_id = Len(todos_db) + 1
       /\ \A i \in 1..Len(todos_db) : todos_db[i].id = i

C10_Witness ==
    /\ Quiescent
    /\ phase = "serving"
    /\ Len(todos_db) = 5
    /\ next_id = 6

====
